---- MODULE Spec2Model ----
(***************************************************************************)
(* State-machine model of coolmenu.py: the CoolMenu filter-and-select      *)
(* session (query, filtered list, selected row, scroll offset), the key    *)
(* handlers bound in bind_keys, and main's use of the session result.      *)
(* Strings are sequences of one-character strings; list indices are        *)
(* zero-based as in the Python source (filtered[i] is filtered[i + 1]      *)
(* here).                                                                  *)
(***************************************************************************)
EXTENDS Integers, Sequences, FiniteSets

VARIABLES items, query, filtered, selected, scroll, lines, pc, result, executed, last

\* before: the query and filtered list as they were before the step just taken
\* (history only, never read by an operation)
VARIABLE before

\* one call of fuzzy_score: its arguments, its return value, its position
VARIABLES pattern, text, score, fpc

\* number of move(4) calls made so far in the 20-item scenario
VARIABLE steps

\* what the menu session never touches
aux == <<pattern, text, score, fpc, steps>>

vars == <<items, query, filtered, selected, scroll, lines, pc, result, executed, last,
          before, pattern, text, score, fpc, steps>>

\* ---------------------------------------------------------------- bounds
\* longest query the model lets the user type (the code has no cap)
MaxQuery == 3
\* largest |delta| passed to move() directly (the key bindings pass -1 and 1)
MaxDelta == 4

\* longest pattern and longest text handed to fuzzy_score
MaxPattern == 2
MaxText == 4
\* number of move(4) calls the 20-item scenario makes
MaxSteps == 6

\* ------------------------------------------------------ program constants
\* rows of chrome subtracted from the terminal height (visible_rows)
Chrome == 6

\* --------------------------------------------------------------- inputs
\* candidate lists handed to CoolMenu(items): sorted (code-point order),
\* unique names, as scan_path() produces them
ItemLists ==
  { <<>>,
    << <<"b","a","s","h">>, <<"c","a","t">>,
       <<"c","a","t","d","o","c">>, <<"e","c","h","o">> >>,
    << <<"C","a","t">>, <<"a","c","t">>, <<"t","a","c">> >> }

\* one-character event data the user can type
TypeChars == {"a", "c", "t", "C"}

\* characters for which str.isprintable() is true
Printable == {"a","b","c","d","e","h","o","s","t","A","C","T"}

\* event.data values delivered to the <any> binding: a printable character,
\* the empty string, backspace (\b), delete (\x7f), an escape sequence
AnyData ==
  { <<ch>> : ch \in TypeChars } \cup
  { <<>>, <<"BS">>, <<"DEL">>, <<"ESC","[","D">> }

\* terminal heights shutil.get_terminal_size().lines can report
TermLines == {5, 6, 8, 11}

\* deltas passed to move() directly (the keys give -1 and 1)
Deltas == {0 - MaxDelta, -2, 0, 2, MaxDelta}

\* characters of the patterns and texts handed to fuzzy_score
FuzzyChars == {"g", "i", "t", "G"}

\* all strings over a set of characters up to a length
StringsUpTo(chars, n) == UNION { [1..k -> chars] : k \in 0..n }

Patterns == StringsUpTo(FuzzyChars, MaxPattern)
Texts == StringsUpTo(FuzzyChars, MaxText)

\* a sorted list of 20 unique names, and its non-empty prefixes
Letters == <<"a","b","c","d","e","f","g","h","i","j",
             "k","l","m","n","o","p","q","r","s","t">>
Items20 == [i \in 1..20 |-> <<Letters[i]>>]
ScenarioLists == { SubSeq(Items20, 1, n) : n \in 1..20 }

\* -------------------------------------------------------------- helpers
Max(a, b) == IF a >= b THEN a ELSE b
Min(a, b) == IF a <= b THEN a ELSE b

\* the session result: Python None, or a string
None == [some |-> FALSE, val |-> <<>>]
Some(s) == [some |-> TRUE, val |-> s]

\* Python truthiness of the result in main: None and "" are falsy
Truthy(r) == r.some /\ r.val # <<>>

\* str.lower() on one character
LowerChar(ch) ==
  CASE ch = "A" -> "a"
    [] ch = "C" -> "c"
    [] ch = "G" -> "g"
    [] ch = "T" -> "t"
    [] OTHER -> ch

\* str.lower()
Lower(s) == [i \in 1..Len(s) |-> LowerChar(s[i])]

\* str.isprintable(): every character printable; true of the empty string
isprintable(s) == \A i \in 1..Len(s) : s[i] \in Printable

\* variant of Contains: q only matches at the start of t (str.startswith)
ContainsPrefix(q, t) ==
  Len(q) <= Len(t) /\ SubSeq(t, 1, Len(q)) = q

\* q in t: q occurs in t as a contiguous substring
Contains(q, t) ==
  \E off \in 0..(Len(t) - Len(q)) : SubSeq(t, off + 1, off + Len(q)) = q

\* variant of DropLast: the first character is removed (query[1:])
DropFirst(s) == IF s = <<>> THEN <<>> ELSE SubSeq(s, 2, Len(s))

\* query[:-1]
DropLast(s) == IF s = <<>> THEN <<>> ELSE SubSeq(s, 1, Len(s) - 1)

\* variant of visible_rows: the height is not clamped to 1
visible_rows_unclamped == lines - Chrome

\* CoolMenu.visible_rows
visible_rows == Max(1, lines - Chrome)

\* CoolMenu.render_list: the (zero-based) rows of filtered that are drawn
render_list ==
  LET start == scroll
      end == Min(start + visible_rows, Len(filtered))
  IN  { i \in 0..(Len(filtered) - 1) : start <= i /\ i < end }

\* the event just handled
Ev(key, data, delta) == [key |-> key, data |-> data, delta |-> delta]

\* variant of fuzzy_find: the text index is not advanced past a match
fuzzy_find_noadvance(t, ch, ti) ==
  IF \E j \in ti..(Len(t) - 1) : t[j + 1] = ch
  THEN CHOOSE j \in ti..(Len(t) - 1) :
         /\ t[j + 1] = ch
         /\ \A k \in ti..(j - 1) : t[k + 1] # ch
  ELSE -1

\* fuzzy_score, the while loop of lines 36-42: scan t from (zero-based) index
\* ti for ch; the index after the match, or -1 if the text ends first
RECURSIVE fuzzy_find(_, _, _)
fuzzy_find(t, ch, ti) ==
  IF ti < Len(t)
  THEN IF t[ti + 1] = ch THEN ti + 1 ELSE fuzzy_find(t, ch, ti + 1)
  ELSE -1

\* fuzzy_score, the for loop of lines 34-44 from pattern position k on, then
\* lines 46-47
RECURSIVE fuzzy_loop(_, _, _, _, _)
fuzzy_loop(p, t, k, ti, sc) ==
  IF k > Len(p)
  THEN sc - (Len(t) \div 4)
  ELSE LET nti == fuzzy_find(t, p[k], ti)
       IN  IF nti = -1 THEN -1
           ELSE fuzzy_loop(p, t, k + 1, nti, sc + 10)

\* variant of fuzzy_score: the pattern is not lowercased
fuzzy_score_rawpattern(p, t) == fuzzy_loop(p, Lower(t), 1, 0, 0)

\* fuzzy_score
fuzzy_score(p, t) == fuzzy_loop(Lower(p), Lower(t), 1, 0, 0)

\* the query and filtered list of the current state
Snapshot == [query |-> query, filtered |-> filtered]

\* no fuzzy_score call and no scenario in progress
AuxIdle ==
  /\ pattern = <<>>
  /\ text = <<>>
  /\ score = 0
  /\ fpc = "idle"
  /\ steps = 0

\* ------------------------------------------------------------ operations
\* variant of update_filter: the selected row is kept across a refilter
update_filter_keepsel(q) ==
  LET lq == Lower(q)
  IN  /\ filtered' = IF lq = <<>> THEN items
                     ELSE SelectSeq(items, LAMBDA it : Contains(lq, Lower(it)))
      /\ selected' = selected

\* CoolMenu.update_filter, run with self.query = q
update_filter(q) ==
  LET lq == Lower(q)
  IN  /\ filtered' = IF lq = <<>> THEN items
                     ELSE SelectSeq(items, LAMBDA it : Contains(lq, Lower(it)))
      /\ selected' = 0

\* variant of move: the scroll offset after moving past the bottom row is
\* off by one
move_offbyone(delta) ==
  IF filtered = <<>>
  THEN UNCHANGED <<selected, scroll>>
  ELSE LET sel == Max(0, Min(selected + delta, Len(filtered) - 1))
           visible == visible_rows
       IN  /\ selected' = sel
           /\ scroll' = IF sel < scroll THEN sel
                        ELSE IF sel >= scroll + visible THEN sel - visible
                        ELSE scroll

\* variant of move: the selected row is not clamped to the last row
move_noclamp(delta) ==
  IF filtered = <<>>
  THEN UNCHANGED <<selected, scroll>>
  ELSE LET sel == Max(0, selected + delta)
           visible == visible_rows
       IN  /\ selected' = sel
           /\ scroll' = IF sel < scroll THEN sel
                        ELSE IF sel >= scroll + visible THEN sel - visible + 1
                        ELSE scroll

\* variant of move: no early return on an empty filtered list
move_noguard(delta) ==
  LET sel == Max(0, Min(selected + delta, Len(filtered) - 1))
      visible == visible_rows
  IN  /\ selected' = sel
      /\ scroll' = IF sel < scroll THEN sel
                   ELSE IF sel >= scroll + visible THEN sel - visible + 1
                   ELSE scroll

\* CoolMenu.move
move(delta) ==
  IF filtered = <<>>
  THEN UNCHANGED <<selected, scroll>>
  ELSE LET sel == Max(0, Min(selected + delta, Len(filtered) - 1))
           visible == visible_rows
       IN  /\ selected' = sel
           /\ scroll' = IF sel < scroll THEN sel
                        ELSE IF sel >= scroll + visible THEN sel - visible + 1
                        ELSE scroll

\* variant of launch_selected: the first row is launched, whatever is selected
launch_first ==
  IF filtered = <<>>
  THEN UNCHANGED <<pc, result>>
  ELSE /\ result' = Some(filtered[1])
       /\ pc' = "exited"

\* CoolMenu.launch_selected
launch_selected ==
  IF filtered = <<>>
  THEN UNCHANGED <<pc, result>>
  ELSE /\ result' = Some(filtered[selected + 1])
       /\ pc' = "exited"

\* CoolMenu.__init__
Init ==
  /\ items \in ItemLists
  /\ scroll = 0
  /\ query = <<>>
  /\ filtered = items
  /\ selected = 0
  /\ lines \in TermLines
  /\ pc = "interactive"
  /\ result = None
  /\ executed = None
  /\ last = Ev("init", <<>>, 0)
  /\ before = Snapshot
  /\ AuxIdle

\* variant of the escape handler: with a non-empty query, escape clears the
\* query instead of leaving
CancelClearsFirst ==
  /\ pc = "interactive"
  /\ IF query # <<>>
     THEN /\ query' = <<>>
          /\ update_filter(query')
          /\ UNCHANGED <<pc, result>>
     ELSE /\ result' = None
          /\ pc' = "exited"
          /\ UNCHANGED <<query, filtered, selected>>
  /\ last' = Ev("cancel", <<>>, 0)
  /\ before' = Snapshot
  /\ UNCHANGED <<aux, items, scroll, lines, executed>>

\* escape / c-c
Cancel ==
  /\ pc = "interactive"
  /\ result' = None
  /\ pc' = "exited"
  /\ last' = Ev("cancel", <<>>, 0)
  /\ before' = Snapshot
  /\ UNCHANGED <<aux, items, query, filtered, selected, scroll, lines, executed>>

\* enter
Enter ==
  /\ pc = "interactive"
  /\ launch_selected
  /\ last' = Ev("enter", <<>>, 0)
  /\ before' = Snapshot
  /\ UNCHANGED <<aux, items, query, filtered, selected, scroll, lines, executed>>

\* up / c-k
Up ==
  /\ pc = "interactive"
  /\ move(-1)
  /\ last' = Ev("up", <<>>, -1)
  /\ before' = Snapshot
  /\ UNCHANGED <<aux, items, query, filtered, lines, pc, result, executed>>

\* down / c-j
Down ==
  /\ pc = "interactive"
  /\ move(1)
  /\ last' = Ev("down", <<>>, 1)
  /\ before' = Snapshot
  /\ UNCHANGED <<aux, items, query, filtered, lines, pc, result, executed>>

\* a direct call of move(delta), any delta
MoveBy ==
  /\ pc = "interactive"
  /\ \E delta \in Deltas :
       /\ move(delta)
       /\ last' = Ev("move", <<>>, delta)
  /\ before' = Snapshot
  /\ UNCHANGED <<aux, items, query, filtered, lines, pc, result, executed>>

\* variant of the c-u handler: the query is cleared without a refilter
ClearNoRefilter ==
  /\ pc = "interactive"
  /\ query' = <<>>
  /\ last' = Ev("c-u", <<>>, 0)
  /\ before' = Snapshot
  /\ UNCHANGED <<aux, items, filtered, selected, scroll, lines, pc, result, executed>>

\* c-u
Clear ==
  /\ pc = "interactive"
  /\ query' = <<>>
  /\ update_filter(query')
  /\ last' = Ev("c-u", <<>>, 0)
  /\ before' = Snapshot
  /\ UNCHANGED <<aux, items, scroll, lines, pc, result, executed>>

\* variant of the <any> handler: a typed character is appended to the query
\* without a refilter
AnyKeyNoRefilter ==
  /\ pc = "interactive"
  /\ \E data \in AnyData :
       /\ isprintable(data) => Len(query) + Len(data) <= MaxQuery
       /\ IF isprintable(data)
          THEN /\ query' = query \o data
               /\ UNCHANGED <<filtered, selected>>
          ELSE IF data \in { <<"BS">>, <<"DEL">> }
          THEN /\ query' = DropLast(query)
               /\ update_filter(query')
          ELSE UNCHANGED <<query, filtered, selected>>
       /\ last' = Ev("any", data, 0)
  /\ before' = Snapshot
  /\ UNCHANGED <<aux, items, scroll, lines, pc, result, executed>>

\* <any>
AnyKey ==
  /\ pc = "interactive"
  /\ \E data \in AnyData :
       /\ isprintable(data) => Len(query) + Len(data) <= MaxQuery
       /\ IF isprintable(data)
          THEN /\ query' = query \o data
               /\ update_filter(query')
          ELSE IF data \in { <<"BS">>, <<"DEL">> }
          THEN /\ query' = DropLast(query)
               /\ update_filter(query')
          ELSE UNCHANGED <<query, filtered, selected>>
       /\ last' = Ev("any", data, 0)
  /\ before' = Snapshot
  /\ UNCHANGED <<aux, items, scroll, lines, pc, result, executed>>

\* the terminal is resized; the program has no handler for it
Resize ==
  /\ pc = "interactive"
  /\ \E n \in TermLines \ {lines} : lines' = n
  /\ last' = Ev("resize", <<>>, 0)
  /\ before' = Snapshot
  /\ UNCHANGED <<aux, items, query, filtered, selected, scroll, pc, result, executed>>

\* variant of main: without a command to run, the menu is shown again
MainRelaunch ==
  /\ pc = "exited"
  /\ executed' = IF Truthy(result) THEN result ELSE None
  /\ pc' = IF Truthy(result) THEN "done" ELSE "interactive"
  /\ last' = Ev("main", <<>>, 0)
  /\ before' = Snapshot
  /\ UNCHANGED <<aux, items, query, filtered, selected, scroll, lines, result>>

\* main, after menu.run() has returned
Main ==
  /\ pc = "exited"
  /\ executed' = IF Truthy(result) THEN result ELSE None
  /\ pc' = "done"
  /\ last' = Ev("main", <<>>, 0)
  /\ before' = Snapshot
  /\ UNCHANGED <<aux, items, query, filtered, selected, scroll, lines, result>>

Next ==
  \/ Cancel
  \/ Enter
  \/ Up
  \/ Down
  \/ MoveBy
  \/ Clear
  \/ AnyKey
  \/ Resize
  \/ Main

Spec == Init /\ [][Next]_vars

\* the menu as constructed on an empty candidate list, with no key pressed
MenuIdle ==
  /\ scroll = 0
  /\ query = <<>>
  /\ filtered = items
  /\ selected = 0
  /\ pc = "interactive"
  /\ result = None
  /\ executed = None
  /\ last = Ev("init", <<>>, 0)
  /\ before = Snapshot

\* --- fuzzy_score called once on each pattern and text
InitFuzzy ==
  /\ items = <<>>
  /\ lines \in {11}
  /\ MenuIdle
  /\ pattern \in Patterns
  /\ text \in Texts
  /\ score = 0
  /\ fpc = "call"
  /\ steps = 0

FuzzyCall ==
  /\ fpc = "call"
  /\ score' = fuzzy_score(pattern, text)
  /\ fpc' = "returned"
  /\ UNCHANGED <<items, query, filtered, selected, scroll, lines, pc, result,
                 executed, last, before, pattern, text, steps>>

NextFuzzy == FuzzyCall

SpecFuzzy == InitFuzzy /\ [][NextFuzzy]_vars

\* --- the scenario of repeated move(4) calls from the top of a fresh menu
InitScenario ==
  /\ items \in ScenarioLists
  /\ lines \in TermLines
  /\ MenuIdle
  /\ AuxIdle

Move4 ==
  /\ pc = "interactive"
  /\ steps < MaxSteps
  /\ move(4)
  /\ steps' = steps + 1
  /\ last' = Ev("move", <<>>, 4)
  /\ before' = Snapshot
  /\ UNCHANGED <<items, query, filtered, lines, pc, result, executed,
                 pattern, text, score, fpc>>

NextScenario == Move4

SpecScenario == InitScenario /\ [][NextScenario]_vars

TypeOK ==
  /\ items \in ItemLists
  /\ Len(query) <= MaxQuery
  /\ selected \in Nat
  /\ scroll \in Nat
  /\ lines \in TermLines
  /\ pc \in {"interactive", "exited", "done"}
  /\ result.some \in BOOLEAN
  /\ executed.some \in BOOLEAN

\* ------------------------------------------------------ event classifiers
MoveKeys == {"up", "down", "move"}

\* a printable-character, backspace or clear event
IsEdit(e) ==
  \/ e.key = "c-u"
  \/ e.key = "any" /\ e.data # <<>> /\ isprintable(e.data)
  \/ e.key = "any" /\ e.data \in { <<"BS">>, <<"DEL">> }

Clamp(x, lo, hi) == IF x < lo THEN lo ELSE IF x > hi THEN hi ELSE x

\* txt contains q at some position, compared character by character
OccursIn(q, txt) ==
  \E off \in 0..Len(txt) :
    /\ off + Len(q) <= Len(txt)
    /\ \A k \in 1..Len(q) : txt[off + k] = q[k]

\* positions of items whose lowercased text contains the lowercased query
MatchIdx == { i \in 1..Len(items) : OccursIn(Lower(query), Lower(items[i])) }

\* ---------------------------------------------------------------- claims

\* C1: whenever filtered is non-empty, scroll <= selected < scroll +
\* visible_rows, i.e. the selected row is one of the rows render_list draws.
ViewportContainment ==
  filtered # <<>> =>
    /\ scroll <= selected
    /\ selected < scroll + visible_rows
    /\ selected \in render_list

\* C2: if filtered is non-empty then 0 <= selected < len(filtered); if it is
\* empty then selected = 0.
SelectionBounds ==
  /\ filtered # <<>> => (0 <= selected /\ selected < Len(filtered))
  /\ filtered = <<>> => selected = 0

SelectionBoundsWitness ==
  /\ last.key \in MoveKeys
  /\ query # <<>>
  /\ Len(filtered) >= 2
  /\ selected = Len(filtered) - 1

\* C3: every printable-character, backspace or clear event leaves selected = 0
\* and scroll = 0.
EditResets ==
  [][IsEdit(last') => (selected' = 0 /\ scroll' = 0)]_vars

\* C4: filtered is exactly the items whose lowercased text contains the
\* lowercased query, in the order of items.
FilterContainment ==
  /\ Len(filtered) = Cardinality(MatchIdx)
  /\ \A i \in MatchIdx :
       filtered[Cardinality({ j \in MatchIdx : j <= i })] = items[i]

FilterContainmentWitness ==
  /\ last.key = "any"
  /\ query = <<"c","a","t">>
  /\ Len(items) = 4
  /\ filtered = << <<"c","a","t">>, <<"c","a","t","d","o","c">> >>

\* C5: whenever the query is empty, filtered equals items.
EmptyQueryIdentity ==
  query = <<>> => filtered = items

EmptyQueryIdentityWitness ==
  /\ last.key = "c-u"
  /\ query = <<>>
  /\ filtered = items
  /\ Len(items) >= 2
  /\ scroll > 0

\* C6: a move by delta on a non-empty filtered sets selected to
\* clamp(selected + delta, 0, len(filtered) - 1), then scroll to selected if
\* selected < scroll, to selected - visible_rows + 1 if selected >= scroll +
\* visible_rows, and leaves it otherwise; query and filtered are unchanged.
MoveEffect ==
  [][(last'.key \in MoveKeys /\ filtered # <<>>) =>
       LET s == Clamp(selected + last'.delta, 0, Len(filtered) - 1)
       IN  /\ selected' = s
           /\ scroll' = IF s < scroll THEN s
                        ELSE IF s >= scroll + visible_rows
                             THEN s - visible_rows + 1
                             ELSE scroll
           /\ query' = query
           /\ filtered' = filtered]_vars

MoveEffectWitness ==
  /\ last.key \in MoveKeys
  /\ Len(filtered) >= 3
  /\ selected = Len(filtered) - 1
  /\ scroll > 0
  /\ scroll = selected - visible_rows + 1

\* C7: a move by 0 leaves query, filtered, selected and scroll unchanged.
MoveZeroNoop ==
  [][(last'.key = "move" /\ last'.delta = 0) =>
       UNCHANGED <<query, filtered, selected, scroll>>]_vars

\* C8: a move by any delta on an empty filtered leaves query, filtered,
\* selected and scroll unchanged and the session stays interactive.
MoveOnEmptyNoop ==
  [][(last'.key \in MoveKeys /\ filtered = <<>>) =>
       /\ UNCHANGED <<query, filtered, selected, scroll>>
       /\ pc' = "interactive"
       /\ result' = result]_vars

MoveOnEmptyNoopWitness ==
  /\ last.key \in MoveKeys
  /\ filtered = <<>>
  /\ items # <<>>
  /\ scroll > 0
  /\ pc = "interactive"

\* C9: enter on an empty filtered changes nothing and the session stays
\* interactive; otherwise the session ends with result filtered[selected].
ConfirmEffect ==
  [][last'.key = "enter" =>
       IF filtered = <<>>
       THEN /\ pc' = "interactive"
            /\ UNCHANGED <<query, filtered, selected, scroll, result>>
       ELSE /\ pc' = "exited"
            /\ result'.some
            /\ result'.val = filtered[selected + 1]]_vars

ConfirmEffectWitness ==
  /\ last.key = "enter"
  /\ pc = "exited"
  /\ result.some
  /\ selected > 0
  /\ result.val = filtered[selected + 1]

\* C10: cancel is possible in every interactive state, always ends the
\* session with result None, and main then executes no command.
CancelTerminates ==
  /\ [](pc = "interactive" => ENABLED Cancel)
  /\ [][last'.key = "cancel" => (pc' = "exited" /\ result' = None)]_vars
  /\ [][(last.key = "cancel" /\ last'.key = "main") => executed' = None]_vars

CancelTerminatesWitness ==
  /\ last.key = "main"
  /\ pc = "done"
  /\ result = None
  /\ executed = None
  /\ query # <<>>
  /\ scroll > 0

\* ------------------------------------------------- more event classifiers
\* a one-character printable event
IsChar(e) == e.key = "any" /\ Len(e.data) = 1 /\ e.data[1] \in Printable

IsBackspace(e) == e.key = "any" /\ e.data \in { <<"BS">>, <<"DEL">> }

\* an event that is none of printable character, backspace, clear, move,
\* confirm, cancel
IsUnrecognized(e) == e.key = "any" /\ ~IsChar(e) /\ ~IsBackspace(e)

\* p is a subsequence of t, decided from the right-hand ends
RECURSIVE IsSubseq(_, _)
IsSubseq(p, t) ==
  IF p = <<>> THEN TRUE
  ELSE IF t = <<>> THEN FALSE
  ELSE IF p[Len(p)] = t[Len(t)]
       THEN IsSubseq(SubSeq(p, 1, Len(p) - 1), SubSeq(t, 1, Len(t) - 1))
       ELSE IsSubseq(p, SubSeq(t, 1, Len(t) - 1))

\* every character of p is found in t at or after the position where the
\* previous one was found
FoundInOrder(p, t) ==
  \E f \in [1..Len(p) -> 1..Len(t)] :
    /\ \A i \in 1..Len(p) : t[f[i]] = p[i]
    /\ \A i \in 1..(Len(p) - 1) : f[i] <= f[i + 1]

\* ----------------------------------------------------------- more claims

\* C11: after a change of the terminal height the selected row is inside
\* the window again (scroll <= selected < scroll + visible_rows) and
\* selected is what it was.
ResizeRescrolls ==
  [][last'.key = "resize" =>
       /\ selected' = selected
       /\ filtered' # <<>> =>
            (scroll' <= selected' /\ selected' < scroll' + visible_rows')]_vars

\* C12: an event that is not a printable character, backspace, clear, move,
\* confirm or cancel (empty key data included) leaves query, filtered,
\* selected and scroll unchanged and the session interactive.
UnrecognizedNoop ==
  [][IsUnrecognized(last') =>
       /\ UNCHANGED <<query, filtered, selected, scroll>>
       /\ pc' = "interactive"]_vars

\* C13: fuzzy_score(P, T) is 10 * len(P) - floor(len(T) / 4) when lowercased
\* P is a subsequence of lowercased T, and -1 otherwise.
FuzzyScoreValue ==
  fpc = "returned" =>
    score = IF IsSubseq(Lower(pattern), Lower(text))
            THEN 10 * Len(pattern) - (Len(text) \div 4)
            ELSE -1

FuzzyScoreValueWitness ==
  /\ fpc = "returned"
  /\ pattern = <<"G", "t">>
  /\ text = <<"g", "i", "t">>
  /\ score = 20

\* C14: whenever the match succeeds (lowercased P is a subsequence of
\* lowercased T, the empty pattern included), fuzzy_score(P, T) > -1.
SentinelBelowValid ==
  (fpc = "returned" /\ IsSubseq(Lower(pattern), Lower(text))) => score > -1

\* C15 as stated: a pattern longer than the text succeeds when each of its
\* characters is found in the text at or after the previous one's position.
LongPatternCanSucceed ==
  (/\ fpc = "returned"
   /\ Len(pattern) > Len(text)
   /\ FoundInOrder(Lower(pattern), Lower(text))) => score # -1

\* C15 as amended: a pattern longer than the text never succeeds; the
\* result is -1.
LongPatternFails ==
  (fpc = "returned" /\ Len(pattern) > Len(text)) => score = -1

LongPatternFailsWitness ==
  /\ fpc = "returned"
  /\ pattern = <<"g", "g">>
  /\ text = <<"g">>
  /\ score = -1

\* C16: once the session has left the interactive state it never returns to
\* it and its result never changes; the result is None or one of items.
OutcomeFixed ==
  /\ [][pc # "interactive" => (pc' # "interactive" /\ result' = result)]_vars
  /\ [](pc # "interactive" =>
          \/ result = None
          \/ result.some /\ \E i \in 1..Len(items) : items[i] = result.val)

OutcomeFixedWitness ==
  /\ pc = "done"
  /\ last.key = "main"
  /\ result = None
  /\ executed = None
  /\ items # <<>>

\* C17 as stated: 20 items, 5 visible rows, six move(4) calls from the top
\* end with selected = 9 and scroll = selected - 4.
ScenarioThreeAsStated ==
  (Len(items) = 20 /\ visible_rows = 5 /\ steps = 6) =>
    (selected = 9 /\ scroll = selected - 4)

\* C17 as amended: 20 items, 5 visible rows, six move(4) calls from the top
\* end with selected = 19 and scroll = selected - 4 = 15, and the selected
\* row is drawn after each call.
ScenarioThree ==
  (Len(items) = 20 /\ visible_rows = 5) =>
    /\ selected \in render_list
    /\ steps = 6 => (selected = 19 /\ scroll = 15 /\ scroll = selected - 4)

ScenarioThreeWitness ==
  /\ Len(items) = 20
  /\ visible_rows = 5
  /\ steps = 6
  /\ last.key = "move"
  /\ selected = 19

\* C18: the height is at least 1, and 1 when the terminal leaves no list row
\* after the chrome; a move then still leaves the selected row drawn.
HeightAtLeastOne ==
  /\ [](visible_rows >= 1 /\ (lines - Chrome <= 0 => visible_rows = 1))
  /\ [][(last'.key \in MoveKeys /\ filtered # <<>>) =>
          selected' \in render_list']_vars

HeightAtLeastOneWitness ==
  /\ lines - Chrome < 0
  /\ last.key = "down"
  /\ selected > 0
  /\ scroll = selected
  /\ render_list = {selected}

\* C19: backspace removes exactly the last character of the query and
\* leaves an empty query empty; a character typed and then backspaced leaves
\* query and filtered as they were before it; items never changes.
BackspaceUndoesChar ==
  /\ [][IsBackspace(last') =>
          /\ query = <<>> => query' = <<>>
          /\ query # <<>> =>
               /\ Len(query') = Len(query) - 1
               /\ \A i \in 1..Len(query') : query'[i] = query[i]]_vars
  /\ [][(IsChar(last) /\ IsBackspace(last')) =>
          (query' = before.query /\ filtered' = before.filtered)]_vars
  /\ [][items' = items]_vars

BackspaceUndoesCharWitness ==
  /\ IsBackspace(last)
  /\ query # <<>>
  /\ before.query = query \o <<"t">>
  /\ before.filtered # filtered

\* C20: a result returned by a confirm is one of items and contains the
\* query, compared in lower case; nothing outside items is ever executed.
ResultIsMatchingCandidate ==
  /\ result.some =>
       /\ \E i \in 1..Len(items) : items[i] = result.val
       /\ OccursIn(Lower(query), Lower(result.val))
  /\ executed.some => \E i \in 1..Len(items) : items[i] = executed.val

ResultIsMatchingCandidateWitness ==
  /\ pc = "done"
  /\ executed.some
  /\ executed = result
  /\ query = <<"C", "a">>
  /\ selected > 0
====
